---------------------------- MODULE Spec2Model ----------------------------
(***************************************************************************)
(* Model of the school-material scripts:                                   *)
(*   - the MCQ set creator     (src/unnamed/part_000, from line 137)       *)
(*   - the MCQ generator       (src/src/generate-mcq.ts)                   *)
(*   - the past paper uploader (src/src/upload-pastpapers.ts)              *)
(* Each script is one sequential process; an action is one awaited call    *)
(* to a collaborator (store, model, file system) together with the code    *)
(* that runs until the next awaited call is issued.                        *)
(*                                                                         *)
(* Encoding of values:                                                     *)
(*   - a null string (topic, subject, question_type_id) is NULL;           *)
(*   - a null difficulty is NULL_DIFFICULTY (0): the code reads a          *)
(*     difficulty only through `difficulty || x` and `.in(...)`, which     *)
(*     treat null and 0 alike;                                             *)
(*   - a nullable list or object is a record with a `null` flag.           *)
(***************************************************************************)
EXTENDS Integers, Sequences, FiniteSets, TLC

VARIABLES
    script,             \* which script this process runs
    pc,                 \* position of the running script
    exitCode,           \* process exit status: -1 while running
    errorLogged,        \* a fatal error was written to stderr
    summaryPrinted,     \* the final summary block was printed
    env,                \* process.env: which credentials are present
    io,                 \* calls issued so far: store, failed store, model, file write,
                        \* failed folder read
    filters,            \* set creator: CONFIG.filters
    mcqs,               \* store table mcqs (rows in the order the store returns them)
    questionTypes,      \* the fetched question-type vocabulary
    allMCQs,            \* set creator: the merged selection of fetchMCQs
    queries,            \* set creator: the difficulty bands queried so far
    lastCall,           \* the last sampling call: its arguments and its outcome
    mcqsets,            \* store table mcqsets: number of set rows
    mcqset_questions,   \* store table mcqset_questions: membership rows
    linkBatch,          \* set creator: the rows of the last batch insert submitted
    pastpapers,         \* store table pastpapers
    genConfig,          \* generator: CONFIG
    sampleQuestions,    \* generator: the exemplar questions sampled
    generation,         \* generator: the last generateMCQs call and its outcome
    outputFile,         \* generator: the review file written
    folder,             \* uploader: the files of CONFIG.pastpapersFolder (their extensions)
    imageFiles,         \* uploader: the image files found (positions in folder)
    topics,             \* uploader: the fetched topic vocabulary
    imageIdx,           \* uploader: the image being processed
    extractedData,      \* uploader: the candidates extracted from that image
    candIdx,            \* uploader: the candidate being processed
    allRecords,         \* uploader: the records collected for review and upload
    successCount,       \* uploader: images whose extraction succeeded
    errorCount,         \* uploader: failed images plus failed candidates
    ocrLog,             \* uploader: per image processed, what performOCR returned
    failures,           \* uploader: the candidates that failed, with the reason
    embedLog,           \* uploader: the embed calls made and their outcome
    reviewFile,         \* uploader: the review file written
    uploads,            \* uploader: per insert attempted, whether it succeeded
    textbooksFolder,    \* textbook uploader: the files of CONFIG.textbooksFolder (their extensions)
    txtFiles,           \* textbook uploader: the .txt files read (positions in the folder)
    txtIdx,             \* textbook uploader: the file being processed
    txtLog,             \* textbook uploader: per file finished, the file and how it ended
    txtSuccessCount,    \* textbook uploader: successCount
    txtErrorCount,      \* textbook uploader: errorCount
    textbookRows        \* store table textbooks: the rows inserted by the run

runVars == <<script, pc, exitCode, errorLogged, summaryPrinted, env, io>>
setVars == <<filters, mcqs, allMCQs, queries, mcqsets, mcqset_questions, linkBatch>>
genVars == <<genConfig, sampleQuestions, generation, outputFile>>
extVars == <<folder, imageFiles, topics, imageIdx, extractedData, candIdx, allRecords,
             successCount, errorCount, ocrLog, failures, embedLog, reviewFile, uploads>>
txtVars == <<textbooksFolder, txtFiles, txtIdx, txtLog, txtSuccessCount, txtErrorCount,
             textbookRows>>
sharedVars == <<questionTypes, lastCall, pastpapers>>
vars == <<runVars, setVars, genVars, extVars, txtVars, sharedVars>>

---------------------------------------------------------------------------
(* Values *)

NULL == "null"
NULL_DIFFICULTY == 0
MISSING_DIFFICULTY_RANK == 999

Min(a, b) == IF a <= b THEN a ELSE b

SeqToSet(s) == {s[i] : i \in 1..Len(s)}

\* CONFIG.setSubject of the set creator, CONFIG.subject of the other scripts
SetSubject == "s1"

\* Store table question_types: the controlled vocabulary.
question_types ==
    << [id |-> "q1", name |-> "n1", subject |-> "s1"],
       [id |-> "q2", name |-> "n2", subject |-> "s1"],
       [id |-> "q3", name |-> "n3", subject |-> "s2"] >>

\* The rows a store table may hold; a store is a subset of them, in id order.
Corpus ==
    << [id |-> 1, subject |-> "s1", topic |-> "t1", question_type_id |-> "q1", difficulty |-> 1],
       [id |-> 2, subject |-> "s1", topic |-> "t1", question_type_id |-> "q2", difficulty |-> 2],
       [id |-> 3, subject |-> "s1", topic |-> "t1", question_type_id |-> "q1", difficulty |-> 3],
       [id |-> 4, subject |-> "s1", topic |-> "t2", question_type_id |-> "q2", difficulty |-> 5],
       [id |-> 5, subject |-> "s2", topic |-> "t1", question_type_id |-> NULL, difficulty |-> NULL_DIFFICULTY] >>

Stores == { SelectSeq(Corpus, LAMBDA r : r.id \in ids) : ids \in SUBSET (1..Len(Corpus)) }

\* Bounds of the model
MaxLimit == 2
MaxBand == 2
MaxLinked == 5
MaxGenerated == 2
MaxFiles == 2
MaxCandidates == 3
MaxTextbooks == 3

NoNames == [null |-> TRUE, list |-> <<>>]
Names(list) == [null |-> FALSE, list |-> list]
NoDistribution == [null |-> TRUE, easy |-> 0, medium |-> 0, hard |-> 0]
Distribution(e, m, h) == [null |-> FALSE, easy |-> e, medium |-> m, hard |-> h]

NameFilters == { NoNames, Names(<<>>), Names(<<"n1">>), Names(<<"n1", "n2">>), Names(<<"nx">>) }

\* No band: difficultyLevels is null (an empty list is treated the same).
NoBand == {}
EasyBand == {1, 2}
MediumBand == {3}
HardBand == {4, 5}

---------------------------------------------------------------------------
(* Sampling engine of the set creator *)

\* fetchQuestionTypes: .from('question_types').eq('subject', subject)
FetchQuestionTypesRows(subject) ==
    SelectSeq(question_types, LAMBDA qt : qt.subject = subject)

\* questionTypes.filter(qt => names.includes(qt.name)).map(qt => qt.id)
QuestionTypeIds(qts, names) ==
    { qts[i].id : i \in { j \in 1..Len(qts) : qts[j].name \in SeqToSet(names.list) } }

\* The type filter is put on the query only when names are given and resolve
\* to at least one id.
TypeFilterApplied(qts, names) ==
    /\ ~names.null
    /\ Len(names.list) > 0
    /\ QuestionTypeIds(qts, names) # {}

\* The query as it would be without its topic filter.
RowMatchesNoTopic(r, f, qts, band) ==
    /\ (f.subject # NULL => r.subject = f.subject)
    /\ (TypeFilterApplied(qts, f.questionTypeNames)
            => r.question_type_id \in QuestionTypeIds(qts, f.questionTypeNames))
    /\ (band # NoBand => r.difficulty \in band)

\* The predicate of the query built by fetchMCQsByDifficulty.
RowMatches(r, f, qts, band) ==
    /\ (f.subject # NULL => r.subject = f.subject)
    /\ (f.topic # NULL => r.topic = f.topic)
    /\ (TypeFilterApplied(qts, f.questionTypeNames)
            => r.question_type_id \in QuestionTypeIds(qts, f.questionTypeNames))
    /\ (band # NoBand => r.difficulty \in band)

QueryMCQs(table, f, qts, band) ==
    SelectSeq(table, LAMBDA r : RowMatches(r, f, qts, band))

\* A sampling with replacement: a position may be drawn more than once.
ArrangementsWithRepeats(k, n) == [1..k -> 1..n]

\* The orders in which k of n positions can come first after the shuffle
\* data.sort(() => 0.5 - Math.random()): every arrangement is possible.
Arrangements(k, n) ==
    { p \in [1..k -> 1..n] : \A i, j \in 1..k : i # j => p[i] # p[j] }

\* A slice that keeps every row the query returned.
SliceCountNoMin(limit, available) == available

\* The length of slice(0, Math.min(limit, data.length)); a negative end
\* counts from the end of the array.
SliceCount(limit, available) ==
    LET end == Min(limit, available)
    IN  IF end >= 0 THEN end
        ELSE IF available + end > 0 THEN available + end ELSE 0

\* shuffled.slice(0, Math.min(limit, data.length)) for every possible shuffle
Samples(data, limit) ==
    LET k == SliceCount(limit, Len(data))
    IN  { [i \in 1..k |-> data[p[i]]] : p \in Arrangements(k, Len(data)) }

\* fetchMCQsByDifficulty: the results the call can return when the query
\* succeeds (an empty query result returns [] after a warning).
FetchMCQsByDifficultyResults(table, f, qts, band, limit) ==
    LET data == QueryMCQs(table, f, qts, band)
    IN  IF Len(data) = 0 THEN { <<>> } ELSE Samples(data, limit)

\* A sampling call as logged in lastCall.
\* error: "none", "store" (the query returned an error) or "empty" (thrown for no row)
NoCall == [fn |-> "none", band |-> NoBand, limit |-> 0, error |-> "none", result |-> <<>>]

\* fetchMCQsByDifficulty: every outcome of one call; a store error is thrown.
FetchMCQsByDifficultyCalls(table, f, qts, band, limit) ==
    LET call == [fn |-> "fetchMCQsByDifficulty", band |-> band, limit |-> limit,
                 error |-> "none", result |-> <<>>]
    IN  { [call EXCEPT !.error = "store"] }
        \cup { [call EXCEPT !.result = res] :
                 res \in FetchMCQsByDifficultyResults(table, f, qts, band, limit) }

---------------------------------------------------------------------------
(* Set composition of the set creator *)

\* The sort key without its || 999 fallback.
DifficultyRankMissingFirst(mcq) == mcq.difficulty

\* a.difficulty || 999
DifficultyRank(mcq) ==
    IF mcq.difficulty = NULL_DIFFICULTY THEN MISSING_DIFFICULTY_RANK ELSE mcq.difficulty

\* One step of the stable sort: x goes after every element that does not
\* rank above it.
InsertByRank(sorted, x) ==
    LET later == { i \in 1..Len(sorted) : DifficultyRank(sorted[i]) > DifficultyRank(x) }
        at == IF later = {} THEN Len(sorted) + 1
              ELSE CHOOSE i \in later : \A j \in later : i <= j
    IN  SubSeq(sorted, 1, at - 1) \o <<x>> \o SubSeq(sorted, at, Len(sorted))

RECURSIVE SortByDifficulty(_)
\* [...mcqs].sort((a, b) => diffA - diffB): Array.prototype.sort is stable
SortByDifficulty(list) ==
    IF Len(list) = 0 THEN <<>>
    ELSE InsertByRank(SortByDifficulty(SubSeq(list, 1, Len(list) - 1)), list[Len(list)])

\* The index of Array.prototype.map taken as it is.
OrderIndexFromZero(index) == index

\* order_index: index + 1, for the 0-based index of Array.prototype.map
OrderIndex(index) == index + 1

\* sortedMCQs.map((mcq, index) => ({mcqset_id, mcq_id, order_index}))
MembershipRows(mcqSetId, list) ==
    LET sortedMCQs == SortByDifficulty(list)
    IN  [ i \in 1..Len(sortedMCQs) |->
            [ mcqset_id |-> mcqSetId, mcq_id |-> sortedMCQs[i].id, order_index |-> OrderIndex(i - 1) ] ]

---------------------------------------------------------------------------
(* Process conventions shared by the scripts *)

EnvChoices == [supabaseUrl : BOOLEAN, supabaseKey : BOOLEAN, openaiKey : BOOLEAN]
FullEnv == [supabaseUrl |-> TRUE, supabaseKey |-> TRUE, openaiKey |-> TRUE]

NoIO == [store |-> 0, storeErr |-> 0, collab |-> 0, file |-> 0, readErr |-> 0]
StoreCallOk == io' = [io EXCEPT !.store = @ + 1]
StoreCallFails == io' = [io EXCEPT !.store = @ + 1, !.storeErr = @ + 1]
CollabCall == io' = [io EXCEPT !.collab = @ + 1]
FileWrite == io' = [io EXCEPT !.file = @ + 1]
FolderReadFails == io' = [io EXCEPT !.readErr = @ + 1]

\* A rejected run that exits 1 without a word on stderr.
FatalUnlogged ==
    /\ pc' = "exit"
    /\ exitCode' = 1
    /\ UNCHANGED <<script, errorLogged, summaryPrinted>>

\* A rejected run: the error is logged by console.error (or, for a throw at
\* module level, printed by the runtime) and the process exits 1.
Fatal ==
    /\ pc' = "exit"
    /\ exitCode' = 1
    /\ errorLogged' = TRUE
    /\ UNCHANGED <<script, summaryPrinted>>

\* .then(() => process.exit(0)) after the summary block
Success ==
    /\ pc' = "exit"
    /\ exitCode' = 0
    /\ summaryPrinted' = TRUE
    /\ UNCHANGED <<script, errorLogged>>

Goto(at) ==
    /\ pc' = at
    /\ UNCHANGED <<script, exitCode, errorLogged, summaryPrinted>>

RunInit ==
    /\ exitCode = -1
    /\ errorLogged = FALSE
    /\ summaryPrinted = FALSE
    /\ env \in EnvChoices
    /\ io = NoIO

---------------------------------------------------------------------------
(* The set creator's main *)

\* A fetchMCQs that queries every band of a distribution, whatever its count.
NextFetchPcEveryBand(from) ==
    LET d == filters.difficultyDistribution
    IN  IF d.null THEN (IF from = 0 THEN "s_flat" ELSE "s_fetched")
        ELSE IF from < 1 THEN "s_easy"
        ELSE IF from < 2 THEN "s_medium"
        ELSE IF from < 3 THEN "s_hard"
        ELSE "s_fetched"

\* The band fetchMCQs queries next: a band whose count is 0 is skipped.
\* from: 0 before the first query, 1 after easy, 2 after medium, 3 after the last.
NextFetchPc(from) ==
    LET d == filters.difficultyDistribution
    IN  IF d.null THEN (IF from = 0 THEN "s_flat" ELSE "s_fetched")
        ELSE IF from < 1 /\ d.easy > 0 THEN "s_easy"
        ELSE IF from < 2 /\ d.medium > 0 THEN "s_medium"
        ELSE IF from < 3 /\ d.hard > 0 THEN "s_hard"
        ELSE "s_fetched"

\* main as it would be without the check of the selection's length.
ContinueFetchKeepsEmpty(from, selection) ==
    IF NextFetchPc(from) # "s_fetched"
    THEN Goto(NextFetchPc(from))
    ELSE Goto("s_create")

\* What main does between two store calls of step 2: when fetchMCQs has
\* returned, an empty selection is thrown as an Error.
ContinueFetch(from, selection) ==
    IF NextFetchPc(from) # "s_fetched"
    THEN Goto(NextFetchPc(from))
    ELSE IF Len(selection) = 0
    THEN Fatal
    ELSE Goto("s_create")

\* Module level: the store client needs SUPABASE_URL and SUPABASE_ANON_KEY.
SetModuleInit ==
    /\ pc = "s_init"
    /\ IF env.supabaseUrl /\ env.supabaseKey THEN Goto("s_types") ELSE Fatal
    /\ UNCHANGED <<env, txtVars, io, setVars, genVars, extVars, sharedVars>>

\* Step 1: the vocabulary is fetched when a name filter or a subject filter is set
\* (an empty name list is truthy).
NeedsQuestionTypes(f) == ~f.questionTypeNames.null \/ f.subject # NULL

MainFetchQuestionTypes ==
    /\ pc = "s_types"
    /\ \/ /\ ~NeedsQuestionTypes(filters)
          /\ questionTypes' = <<>>
          /\ UNCHANGED io
          /\ ContinueFetch(0, <<>>)
       \/ /\ NeedsQuestionTypes(filters)
          /\ questionTypes' = FetchQuestionTypesRows(SetSubject)
          /\ StoreCallOk
          /\ ContinueFetch(0, <<>>)
       \/ /\ NeedsQuestionTypes(filters)
          /\ questionTypes' = <<>>
          /\ StoreCallFails
          /\ Fatal
    /\ UNCHANGED <<env, txtVars, setVars, genVars, extVars, lastCall, pastpapers>>

\* One call of fetchMCQsByDifficulty made by fetchMCQs.
FetchBand(at, from, band, limit) ==
    /\ pc = at
    /\ queries' = Append(queries, band)
    /\ \E call \in FetchMCQsByDifficultyCalls(mcqs, filters, questionTypes, band, limit) :
          /\ lastCall' = call
          /\ IF call.error = "none"
             THEN /\ allMCQs' = allMCQs \o call.result
                  /\ StoreCallOk
                  /\ ContinueFetch(from, allMCQs \o call.result)
             ELSE /\ UNCHANGED allMCQs
                  /\ StoreCallFails
                  /\ Fatal
    /\ UNCHANGED <<env, txtVars, filters, mcqs, mcqsets, mcqset_questions, linkBatch,
                   genVars, extVars, questionTypes, pastpapers>>

FetchEasy == FetchBand("s_easy", 1, EasyBand, filters.difficultyDistribution.easy)
FetchMedium == FetchBand("s_medium", 2, MediumBand, filters.difficultyDistribution.medium)
FetchHard == FetchBand("s_hard", 3, HardBand, filters.difficultyDistribution.hard)
FetchFlat == FetchBand("s_flat", 3, NoBand, filters.limit)

\* Step 4: createMCQSet inserts one row into mcqsets.
CreateMCQSet ==
    /\ pc = "s_create"
    /\ \/ /\ mcqsets' = mcqsets + 1
          /\ StoreCallOk
          /\ Goto("s_link")
       \/ /\ UNCHANGED mcqsets
          /\ StoreCallFails
          /\ Fatal
    /\ UNCHANGED <<env, txtVars, filters, mcqs, allMCQs, queries, mcqset_questions, linkBatch,
                   genVars, extVars, sharedVars>>

\* A linkage that deletes the set row again when the membership insert fails.
LinkMCQsToSetUndoesSet ==
    /\ pc = "s_link"
    /\ linkBatch' = MembershipRows(mcqsets, allMCQs)
    /\ \/ /\ mcqset_questions' = mcqset_questions \o MembershipRows(mcqsets, allMCQs)
          /\ UNCHANGED mcqsets
          /\ StoreCallOk
          /\ Success
       \/ /\ UNCHANGED mcqset_questions
          /\ mcqsets' = mcqsets - 1
          /\ io' = [io EXCEPT !.store = @ + 2, !.storeErr = @ + 1]
          /\ Fatal
    /\ UNCHANGED <<env, txtVars, filters, mcqs, allMCQs, queries, genVars, extVars, sharedVars>>

\* A linkage that inserts the rows one by one and fails on the last one.
LinkMCQsToSetRowByRow ==
    /\ pc = "s_link"
    /\ linkBatch' = MembershipRows(mcqsets, allMCQs)
    /\ \/ /\ mcqset_questions' = mcqset_questions \o MembershipRows(mcqsets, allMCQs)
          /\ StoreCallOk
          /\ Success
       \/ /\ mcqset_questions' = mcqset_questions \o
                SubSeq(MembershipRows(mcqsets, allMCQs), 1, Len(allMCQs) - 1)
          /\ StoreCallFails
          /\ Fatal
    /\ UNCHANGED <<env, txtVars, filters, mcqs, allMCQs, queries, mcqsets, genVars, extVars, sharedVars>>

\* Step 5: linkMCQsToSet submits all membership rows as one insert; then the
\* success summary is printed and the process exits 0.
LinkMCQsToSet ==
    /\ pc = "s_link"
    /\ linkBatch' = MembershipRows(mcqsets, allMCQs)
    /\ \/ /\ mcqset_questions' = mcqset_questions \o MembershipRows(mcqsets, allMCQs)
          /\ StoreCallOk
          /\ Success
       \/ /\ UNCHANGED mcqset_questions
          /\ StoreCallFails
          /\ Fatal
    /\ UNCHANGED <<env, txtVars, filters, mcqs, allMCQs, queries, mcqsets, genVars, extVars, sharedVars>>

FilterChoices ==
    [ topic : {NULL, "t1"},
      questionTypeNames : NameFilters,
      subject : {NULL, "s1"},
      difficultyDistribution : {NoDistribution}
          \cup { Distribution(e, m, h) : e \in 0..MaxBand, m \in 0..MaxBand, h \in 0..MaxBand },
      limit : 0..MaxLimit ]

\* CONFIG.filters as committed, with the limit of the model
DefaultFilters ==
    [ topic |-> "t1", questionTypeNames |-> NoNames, subject |-> "s1",
      difficultyDistribution |-> NoDistribution, limit |-> MaxLimit ]

\* The configurations of a whole run: the name filter is off, resolves, or
\* does not resolve; a distribution replaces the limit.
RunFilterChoices ==
    { f \in FilterChoices :
        /\ f.questionTypeNames \in {NoNames, Names(<<"n1">>), Names(<<"nx">>)}
        /\ (~f.difficultyDistribution.null => f.limit = MaxLimit) }

NoGeneration == [called |-> FALSE, threw |-> FALSE, result |-> <<>>]
NoFile == [written |-> FALSE, mcqs |-> <<>>]

GenIdle ==
    /\ genConfig = [topic |-> NULL, questionTypes |-> NoNames, numberOfQuestions |-> 0,
                    numberOfMCQsToGenerate |-> 0, difficulty |-> "mixed"]
    /\ sampleQuestions = <<>>
    /\ generation = NoGeneration
    /\ outputFile = NoFile

NoReview == [written |-> FALSE, records |-> <<>>]

ExtIdle ==
    /\ folder = <<>>
    /\ imageFiles = <<>>
    /\ topics = <<>>
    /\ imageIdx = 0
    /\ extractedData = <<>>
    /\ candIdx = 0
    /\ allRecords = <<>>
    /\ successCount = 0
    /\ errorCount = 0
    /\ ocrLog = <<>>
    /\ failures = <<>>
    /\ embedLog = <<>>
    /\ reviewFile = NoReview
    /\ uploads = <<>>

TxtIdle ==
    /\ textbooksFolder = <<>>
    /\ txtFiles = <<>>
    /\ txtIdx = 0
    /\ txtLog = <<>>
    /\ txtSuccessCount = 0
    /\ txtErrorCount = 0
    /\ textbookRows = <<>>

SetIdle ==
    /\ filters = DefaultFilters
    /\ mcqs = <<>>
    /\ allMCQs = <<>>
    /\ queries = <<>>
    /\ mcqsets = 0
    /\ mcqset_questions = <<>>
    /\ linkBatch = <<>>

SetInit ==
    /\ TxtIdle
    /\ script = "set"
    /\ pc = "s_init"
    /\ RunInit
    /\ filters \in RunFilterChoices
    /\ mcqs \in Stores
    /\ (env # FullEnv => filters = DefaultFilters /\ mcqs = Corpus)
    /\ questionTypes = <<>>
    /\ allMCQs = <<>>
    /\ queries = <<>>
    /\ lastCall = NoCall
    /\ mcqsets = 0
    /\ mcqset_questions = <<>>
    /\ linkBatch = <<>>
    /\ pastpapers = <<>>
    /\ GenIdle
    /\ ExtIdle

SetNext ==
    \/ SetModuleInit
    \/ MainFetchQuestionTypes
    \/ FetchEasy
    \/ FetchMedium
    \/ FetchHard
    \/ FetchFlat
    \/ CreateMCQSet
    \/ LinkMCQsToSet

SpecSet == SetInit /\ [][SetNext]_vars

---------------------------------------------------------------------------
(* The MCQ generator *)

\* Store table textbooks: the reference content.
textbooks == << [topic |-> "t1", subject |-> "s1", content |-> "c1"] >>

DifficultyModes == {"easy", "medium", "hard", "mixed"}

\* The difficulty range the prompt's difficultyGuidance names for a mode.
GuidanceRange(mode) ==
    CASE mode = "easy" -> {1, 2}
      [] mode = "medium" -> {3}
      [] mode = "hard" -> {4, 5}
      [] OTHER -> 1..5

\* The predicate of the query built by fetchRandomQuestions: the subject
\* is always filtered on.
RandomRowMatches(r, subject, topic, names, qts) ==
    /\ r.subject = subject
    /\ (topic # NULL => r.topic = topic)
    /\ (TypeFilterApplied(qts, names) => r.question_type_id \in QuestionTypeIds(qts, names))

QueryPastpapers(table, subject, topic, names, qts) ==
    SelectSeq(table, LAMBDA r : RandomRowMatches(r, subject, topic, names, qts))

\* fetchRandomQuestions: every outcome of one call; a store error and an
\* empty query result are both thrown.
FetchRandomQuestionsCalls(table, subject, topic, names, limit, qts) ==
    LET data == QueryPastpapers(table, subject, topic, names, qts)
        call == [fn |-> "fetchRandomQuestions", band |-> NoBand, limit |-> limit,
                 error |-> "none", result |-> <<>>]
    IN  { [call EXCEPT !.error = "store"] }
        \cup (IF Len(data) = 0
              THEN { [call EXCEPT !.error = "empty"] }
              ELSE { [call EXCEPT !.result = res] : res \in Samples(data, limit) })

\* MCQsSchema: an array of any length of MCQs with an integer difficulty 1..5.
MCQSchema == [difficulty : 1..5]
SeqsUpTo(S, n) == UNION { [1..k -> S] : k \in 0..n }
MCQsSchema == SeqsUpTo(MCQSchema, MaxGenerated)

\* generateMCQs returns result.object: whatever the collaborator produced and
\* the schema accepted; neither the count nor the difficulties are checked.
GenerateMCQsAccepts(output, numberOfMCQs, difficulty) == TRUE

\* Module level: the store client's credentials, then OPENAI_API_KEY.
GenModuleInit ==
    /\ pc = "g_init"
    /\ IF env.supabaseUrl /\ env.supabaseKey /\ env.openaiKey THEN Goto("g_types") ELSE Fatal
    /\ UNCHANGED <<env, txtVars, io, setVars, genVars, extVars, sharedVars>>

\* Step 1
GenFetchQuestionTypes ==
    /\ pc = "g_types"
    /\ \/ /\ questionTypes' = FetchQuestionTypesRows(SetSubject)
          /\ StoreCallOk
          /\ Goto("g_sample")
       \/ /\ UNCHANGED questionTypes
          /\ StoreCallFails
          /\ Fatal
    /\ UNCHANGED <<env, txtVars, setVars, genVars, extVars, lastCall, pastpapers>>

\* Step 2: fetchRandomQuestions throws when the query fails or matches no row;
\* step 3 then refuses a run without a topic.
GenFetchRandomQuestions ==
    /\ pc = "g_sample"
    /\ \E call \in FetchRandomQuestionsCalls(pastpapers, SetSubject, genConfig.topic,
                      genConfig.questionTypes, genConfig.numberOfQuestions, questionTypes) :
          /\ lastCall' = call
          /\ IF call.error = "store" THEN StoreCallFails ELSE StoreCallOk
          /\ IF call.error # "none"
             THEN /\ UNCHANGED sampleQuestions
                  /\ Fatal
             ELSE /\ sampleQuestions' = call.result
                  /\ IF genConfig.topic = NULL THEN Fatal ELSE Goto("g_textbook")
    /\ UNCHANGED <<env, txtVars, setVars, genConfig, generation, outputFile, extVars, questionTypes,
                   pastpapers>>

\* Step 3: fetchTextbookContent reads the one row of the topic
GenFetchTextbookContent ==
    /\ pc = "g_textbook"
    /\ \/ /\ \E i \in 1..Len(textbooks) :
                textbooks[i].subject = SetSubject /\ textbooks[i].topic = genConfig.topic
          /\ StoreCallOk
          /\ Goto("g_generate")
       \/ /\ StoreCallFails
          /\ Fatal
    /\ UNCHANGED <<env, txtVars, setVars, genVars, extVars, sharedVars>>

\* Step 4: one structured-output call
GenGenerateMCQs ==
    /\ pc = "g_generate"
    /\ CollabCall
    /\ \/ /\ generation' = [called |-> TRUE, threw |-> TRUE, result |-> <<>>]
          /\ Fatal
       \/ \E output \in MCQsSchema :
             /\ GenerateMCQsAccepts(output, genConfig.numberOfMCQsToGenerate, genConfig.difficulty)
             /\ generation' = [called |-> TRUE, threw |-> FALSE, result |-> output]
             /\ Goto("g_save")
    /\ UNCHANGED <<env, txtVars, setVars, genConfig, sampleQuestions, outputFile, extVars, sharedVars>>

\* A step 5 that also inserts the generated questions into the store.
GenSaveMCQsToFileAndStore ==
    /\ pc = "g_save"
    /\ FileWrite
    /\ pastpapers' = pastpapers \o
          [ i \in 1..Len(generation.result) |->
              [ id |-> 0, subject |-> SetSubject, topic |-> genConfig.topic,
                question_type_id |-> NULL,
                difficulty |-> generation.result[i].difficulty ] ]
    /\ \/ /\ outputFile' = [written |-> TRUE, mcqs |-> generation.result]
          /\ Success
       \/ /\ UNCHANGED outputFile
          /\ Fatal
    /\ UNCHANGED <<env, txtVars, setVars, genConfig, sampleQuestions, generation, extVars,
                   questionTypes, lastCall>>

\* Step 5: saveMCQsToFile, then the summary
GenSaveMCQsToFile ==
    /\ pc = "g_save"
    /\ FileWrite
    /\ \/ /\ outputFile' = [written |-> TRUE, mcqs |-> generation.result]
          /\ Success
       \/ /\ UNCHANGED outputFile
          /\ Fatal
    /\ UNCHANGED <<env, txtVars, setVars, genConfig, sampleQuestions, generation, extVars, sharedVars>>

GenConfigChoices ==
    [ topic : {NULL, "t1"},
      questionTypes : {NoNames, Names(<<"n1">>)},
      numberOfQuestions : 0..MaxLimit,
      numberOfMCQsToGenerate : 1..MaxGenerated,
      difficulty : DifficultyModes ]

DefaultGenConfig ==
    [ topic |-> "t1", questionTypes |-> NoNames, numberOfQuestions |-> MaxLimit,
      numberOfMCQsToGenerate |-> MaxGenerated, difficulty |-> "hard" ]

\* The pastpapers tables of a generator run
GenStores == { SubSeq(Corpus, 1, k) : k \in 0..3 }

GenInit ==
    /\ TxtIdle
    /\ script = "gen"
    /\ pc = "g_init"
    /\ RunInit
    /\ genConfig \in GenConfigChoices
    /\ pastpapers \in GenStores
    /\ (env # FullEnv => genConfig = DefaultGenConfig /\ pastpapers = SubSeq(Corpus, 1, 3))
    /\ sampleQuestions = <<>>
    /\ generation = NoGeneration
    /\ outputFile = NoFile
    /\ questionTypes = <<>>
    /\ lastCall = NoCall
    /\ SetIdle
    /\ ExtIdle

GenNext ==
    \/ GenModuleInit
    \/ GenFetchQuestionTypes
    \/ GenFetchRandomQuestions
    \/ GenFetchTextbookContent
    \/ GenGenerateMCQs
    \/ GenSaveMCQsToFile

SpecGen == GenInit /\ [][GenNext]_vars

---------------------------------------------------------------------------
(* The past paper uploader *)

\* fetchTopics: .from('textbooks').select('topic, subject').eq('subject', subject)
FetchTopicsRows(subject) ==
    LET rows == SelectSeq(textbooks, LAMBDA t : t.subject = subject)
    IN  [ i \in 1..Len(rows) |-> [topic |-> rows[i].topic, subject |-> rows[i].subject] ]

\* readImageFiles keeps the files ending in .jpg, .jpeg or .png
IsImage(ext) == ext \in {"jpg", "jpeg", "png"}
ReadImageFiles(files) ==
    LET RECURSIVE Scan(_)
        Scan(i) == IF i > Len(files) THEN <<>>
                   ELSE (IF IsImage(files[i]) THEN <<i>> ELSE <<>>) \o Scan(i + 1)
    IN  Scan(1)

\* What the extraction collaborator can return for one image: the schema
\* takes any string as topic and as question_type_name.
CandidateKinds ==
    { [question_type_name |-> "n1", topic |-> "t1"],
      [question_type_name |-> "nx", topic |-> "t1"],
      [question_type_name |-> "n1", topic |-> "tx"] }

ExtractedQuestions(n) ==
    { [ j \in 1..Len(kinds) |->
          [ question_number |-> j, question_type_name |-> kinds[j].question_type_name,
            topic |-> kinds[j].topic ] ] : kinds \in SeqsUpTo(CandidateKinds, n) }

\* A lookup that ignores the name and takes the last term of the vocabulary.
MapQuestionTypeToIdLast(questionTypeName, qts) ==
    IF Len(qts) = 0 THEN NULL ELSE qts[Len(qts)].id

\* questionTypes.find(qt => qt.name === questionTypeName): the first term of
\* that name, or NULL where the code throws.
MapQuestionTypeToId(questionTypeName, qts) ==
    LET found == { i \in 1..Len(qts) : qts[i].name = questionTypeName }
    IN  IF found = {} THEN NULL
        ELSE qts[CHOOSE i \in found : \A j \in found : i <= j].id

\* The text embedded for a candidate (question, answer, explanation), named by
\* its source image and question number, and the vector embed returns for it.
EmbeddingText(filename, question) == <<filename, question.question_number>>
EmbeddingOf(text) == [vector |-> text]

\* A record that carries a vector embedded for another text.
StaleEmbedding(filename, question, questionTypeId, embedding) ==
    [ topic |-> question.topic,
      question_number |-> question.question_number,
      subject |-> SetSubject,
      question_type_id |-> questionTypeId,
      embedding |-> EmbeddingOf(<<filename, 0>>),
      metadata |-> [source_image |-> filename,
                    question_type_name |-> question.question_type_name] ]

\* const record: PastPaperRecord = {...}
PastPaperRecord(filename, question, questionTypeId, embedding) ==
    [ topic |-> question.topic,
      question_number |-> question.question_number,
      subject |-> SetSubject,
      question_type_id |-> questionTypeId,
      embedding |-> embedding,
      metadata |-> [source_image |-> filename,
                    question_type_name |-> question.question_type_name] ]

CandidatesSoFar ==
    LET RECURSIVE Sum(_)
        Sum(i) == IF i = 0 THEN 0 ELSE Len(ocrLog[i].data) + Sum(i - 1)
    IN  Sum(Len(ocrLog))

\* A loop end that goes on to the inserts without writing the review file.
AfterImageSkipsReport(records) ==
    IF imageIdx < Len(imageFiles)
    THEN /\ imageIdx' = imageIdx + 1
         /\ Goto("e_image")
    ELSE /\ UNCHANGED imageIdx
         /\ IF Len(records) > 0 THEN Goto("e_upload") ELSE Success

\* After the last image: step 4 when records were collected, else the summary.
AfterImage(records) ==
    IF imageIdx < Len(imageFiles)
    THEN /\ imageIdx' = imageIdx + 1
         /\ Goto("e_image")
    ELSE /\ UNCHANGED imageIdx
         /\ IF Len(records) > 0 THEN Goto("e_save") ELSE Success

\* Module level: the store client's credentials, then OPENAI_API_KEY.
ExtModuleInit ==
    /\ pc = "e_init"
    /\ IF env.supabaseUrl /\ env.supabaseKey /\ env.openaiKey THEN Goto("e_types") ELSE Fatal
    /\ UNCHANGED <<env, txtVars, io, setVars, genVars, extVars, sharedVars>>

\* Step 1: fetchQuestionTypes
ExtFetchQuestionTypes ==
    /\ pc = "e_types"
    /\ \/ /\ questionTypes' = FetchQuestionTypesRows(SetSubject)
          /\ StoreCallOk
          /\ Goto("e_topics")
       \/ /\ UNCHANGED questionTypes
          /\ StoreCallFails
          /\ Fatal
    /\ UNCHANGED <<env, txtVars, setVars, genVars, extVars, lastCall, pastpapers>>

\* A fetchTopics whose store error is swallowed: the run goes on without topics.
ExtFetchTopicsSwallowsError ==
    /\ pc = "e_topics"
    /\ \/ /\ topics' = FetchTopicsRows(SetSubject)
          /\ StoreCallOk
          /\ Goto("e_read")
       \/ /\ topics' = <<>>
          /\ StoreCallFails
          /\ Goto("e_read")
    /\ UNCHANGED <<env, txtVars, setVars, genVars, sharedVars, folder, imageFiles, imageIdx,
                   extractedData, candIdx, allRecords, successCount, errorCount, ocrLog,
                   failures, embedLog, reviewFile, uploads>>

\* Step 1: fetchTopics
ExtFetchTopics ==
    /\ pc = "e_topics"
    /\ \/ /\ topics' = FetchTopicsRows(SetSubject)
          /\ StoreCallOk
          /\ Goto("e_read")
       \/ /\ UNCHANGED topics
          /\ StoreCallFails
          /\ Fatal
    /\ UNCHANGED <<env, txtVars, setVars, genVars, sharedVars, folder, imageFiles, imageIdx,
                   extractedData, candIdx, allRecords, successCount, errorCount, ocrLog,
                   failures, embedLog, reviewFile, uploads>>

\* A step 2 that throws when the folder holds no image.
ExtReadImageFilesThrowsOnEmpty ==
    /\ pc = "e_read"
    /\ \/ /\ imageFiles' = ReadImageFiles(folder)
          /\ UNCHANGED io
          /\ IF Len(ReadImageFiles(folder)) = 0
             THEN /\ UNCHANGED imageIdx
                  /\ Fatal
             ELSE /\ imageIdx' = 1
                  /\ Goto("e_image")
       \/ /\ UNCHANGED <<imageFiles, imageIdx>>
          /\ FolderReadFails
          /\ Fatal
    /\ UNCHANGED <<env, txtVars, setVars, genVars, sharedVars, folder, topics,
                   extractedData, candIdx, allRecords, successCount, errorCount, ocrLog,
                   failures, embedLog, reviewFile, uploads>>

\* Step 2: readImageFiles; with no image the function returns before the summary.
ExtReadImageFiles ==
    /\ pc = "e_read"
    /\ \/ /\ imageFiles' = ReadImageFiles(folder)
          /\ UNCHANGED io
          /\ IF Len(ReadImageFiles(folder)) = 0
             THEN /\ pc' = "exit"
                  /\ exitCode' = 0
                  /\ UNCHANGED <<script, errorLogged, summaryPrinted, imageIdx>>
             ELSE /\ imageIdx' = 1
                  /\ Goto("e_image")
       \/ /\ UNCHANGED <<imageFiles, imageIdx>>
          /\ FolderReadFails
          /\ Fatal
    /\ UNCHANGED <<env, txtVars, setVars, genVars, sharedVars, folder, topics,
                   extractedData, candIdx, allRecords, successCount, errorCount, ocrLog,
                   failures, embedLog, reviewFile, uploads>>

\* performOCR threw (its catch logs and rethrows) and the outer catch of the loop
\* counts the image as failed; the loop goes on with the next image.
PerformOCRFailed ==
    /\ ocrLog' = Append(ocrLog, [ok |-> FALSE, data |-> <<>>])
    /\ errorCount' = errorCount + 1
    /\ UNCHANGED <<extractedData, candIdx, successCount>>
    /\ AfterImage(allRecords)

\* Step 3, per image: performOCR first reads the image file; when the read
\* rejects, no extraction call is made.
PerformOCRReadFile ==
    /\ pc = "e_image"
    /\ \/ /\ Goto("e_ocr")
          /\ UNCHANGED <<imageIdx, extractedData, candIdx, successCount, errorCount, ocrLog>>
       \/ PerformOCRFailed
    /\ UNCHANGED <<env, txtVars, io, setVars, genVars, sharedVars, folder, imageFiles, topics,
                   allRecords, failures, embedLog, reviewFile, uploads>>

\* Step 3, per image: the generateObject call of performOCR. A failure is
\* counted and the loop goes on.
PerformOCR ==
    /\ pc = "e_ocr"
    /\ CollabCall
    /\ \/ PerformOCRFailed
       \/ \E data \in ExtractedQuestions(MaxCandidates - CandidatesSoFar) :
             /\ ocrLog' = Append(ocrLog, [ok |-> TRUE, data |-> data])
             /\ extractedData' = data
             /\ UNCHANGED errorCount
             /\ IF Len(data) = 0
                THEN /\ successCount' = successCount + 1
                     /\ UNCHANGED candIdx
                     /\ AfterImage(allRecords)
                ELSE /\ candIdx' = 1
                     /\ Goto("e_cand")
                     /\ UNCHANGED <<successCount, imageIdx>>
    /\ UNCHANGED <<env, txtVars, setVars, genVars, sharedVars, folder, imageFiles, topics,
                   allRecords, failures, embedLog, reviewFile, uploads>>

\* An end of image that counts the image as successful only when its last
\* candidate was collected.
AfterCandidateSuccessNeedsRecord(records) ==
    IF candIdx < Len(extractedData)
    THEN /\ candIdx' = candIdx + 1
         /\ Goto("e_cand")
         /\ UNCHANGED <<successCount, imageIdx>>
    ELSE /\ UNCHANGED candIdx
         /\ successCount' = IF records # allRecords THEN successCount + 1 ELSE successCount
         /\ AfterImage(records)

\* After one candidate: the next candidate, or the end of the image.
AfterCandidate(records) ==
    IF candIdx < Len(extractedData)
    THEN /\ candIdx' = candIdx + 1
         /\ Goto("e_cand")
         /\ UNCHANGED <<successCount, imageIdx>>
    ELSE /\ UNCHANGED candIdx
         /\ successCount' = successCount + 1
         /\ AfterImage(records)

\* A catch that leaves the loop over the image's candidates.
CandidateFailedAbortsImage(failure) ==
    /\ failures' = Append(failures, failure)
    /\ errorCount' = errorCount + 1
    /\ UNCHANGED <<allRecords, candIdx, successCount>>
    /\ AfterImage(allRecords)

\* The inner catch: the failure is logged and counted, and the loop goes on
\* with the next candidate.
CandidateFailed(failure) ==
    /\ failures' = Append(failures, failure)
    /\ errorCount' = errorCount + 1
    /\ UNCHANGED allRecords
    /\ AfterCandidate(allRecords)

\* Step 3, per candidate: resolve the label, embed, collect the record.
ProcessQuestion ==
    /\ pc = "e_cand"
    /\ LET filename == imageFiles[imageIdx]
           question == extractedData[candIdx]
           questionTypeId == MapQuestionTypeToId(question.question_type_name, questionTypes)
           text == EmbeddingText(filename, question)
           failure(reason) == [source_image |-> filename,
                               question_number |-> question.question_number,
                               reason |-> reason]
           record == PastPaperRecord(filename, question, questionTypeId, EmbeddingOf(text))
       IN  \/ /\ questionTypeId = NULL
              /\ UNCHANGED <<embedLog, io>>
              /\ CandidateFailed(failure("type"))
           \/ /\ questionTypeId # NULL
              /\ CollabCall
              /\ embedLog' = Append(embedLog, [text |-> text, ok |-> FALSE])
              /\ CandidateFailed(failure("embed"))
           \/ /\ questionTypeId # NULL
              /\ CollabCall
              /\ embedLog' = Append(embedLog, [text |-> text, ok |-> TRUE])
              /\ allRecords' = Append(allRecords, record)
              /\ UNCHANGED <<failures, errorCount>>
              /\ AfterCandidate(Append(allRecords, record))
    /\ UNCHANGED <<env, txtVars, setVars, genVars, sharedVars, folder, imageFiles, topics,
                   extractedData, ocrLog, reviewFile, uploads>>

\* Step 4: saveToReviewFile
SaveToReviewFile ==
    /\ pc = "e_save"
    /\ FileWrite
    /\ \/ /\ reviewFile' = [written |-> TRUE, records |-> allRecords]
          /\ Goto("e_upload")
       \/ /\ UNCHANGED reviewFile
          /\ Fatal
    /\ UNCHANGED <<env, txtVars, setVars, genVars, sharedVars, folder, imageFiles, topics, imageIdx,
                   extractedData, candIdx, allRecords, successCount, errorCount, ocrLog,
                   failures, embedLog, uploads>>

\* Step 5: uploadToSupabase inserts the records one by one; a failed insert is
\* caught and counted. After the last one the summary is printed.
UploadToSupabase ==
    /\ pc = "e_upload"
    /\ LET question == allRecords[Len(uploads) + 1]
           last == Len(uploads) + 1 = Len(allRecords)
       IN  /\ \/ /\ pastpapers' = Append(pastpapers, question)
                 /\ uploads' = Append(uploads, TRUE)
                 /\ StoreCallOk
              \/ /\ UNCHANGED pastpapers
                 /\ uploads' = Append(uploads, FALSE)
                 /\ StoreCallFails
           /\ IF last THEN Success ELSE Goto("e_upload")
    /\ UNCHANGED <<env, txtVars, setVars, genVars, questionTypes, lastCall, folder, imageFiles, topics,
                   imageIdx, extractedData, candIdx, allRecords, successCount, errorCount,
                   ocrLog, failures, embedLog, reviewFile>>

FolderChoices == SeqsUpTo({"png", "txt"}, MaxFiles)

ExtInit ==
    /\ TxtIdle
    /\ script = "ext"
    /\ pc = "e_init"
    /\ RunInit
    /\ folder \in FolderChoices
    /\ (env # FullEnv => folder = <<"png">>)
    /\ imageFiles = <<>>
    /\ topics = <<>>
    /\ imageIdx = 0
    /\ extractedData = <<>>
    /\ candIdx = 0
    /\ allRecords = <<>>
    /\ successCount = 0
    /\ errorCount = 0
    /\ ocrLog = <<>>
    /\ failures = <<>>
    /\ embedLog = <<>>
    /\ reviewFile = NoReview
    /\ uploads = <<>>
    /\ questionTypes = <<>>
    /\ lastCall = NoCall
    /\ pastpapers = <<>>
    /\ SetIdle
    /\ GenIdle

ExtNext ==
    \/ ExtModuleInit
    \/ ExtFetchQuestionTypes
    \/ ExtFetchTopics
    \/ ExtReadImageFiles
    \/ PerformOCRReadFile
    \/ PerformOCR
    \/ ProcessQuestion
    \/ SaveToReviewFile
    \/ UploadToSupabase

SpecExt == ExtInit /\ [][ExtNext]_vars

---------------------------------------------------------------------------
(* The textbook uploader (src/src/upload.ts) *)

\* files.filter(file => file.endsWith('.txt'))
IsTextbook(ext) == ext = "txt"
ReadTextbookFiles(files) ==
    LET RECURSIVE Scan(_)
        Scan(i) == IF i > Len(files) THEN <<>>
                   ELSE (IF IsTextbook(files[i]) THEN <<i>> ELSE <<>>) \o Scan(i + 1)
    IN  Scan(1)

\* const record: TextbookRecord = {...}: the topic is the file's name.
TextbookRecord(filename) ==
    [ topic |-> filename, subject |-> SetSubject, metadata |-> [filename |-> filename] ]

\* After one file: the next file, or the upload summary.
TxtAfterFile ==
    IF txtIdx < Len(txtFiles)
    THEN /\ txtIdx' = txtIdx + 1
         /\ Goto("t_summarize")
    ELSE /\ UNCHANGED txtIdx
         /\ Success

\* A catch that lets the failure of one file end the run.
TxtFileFailedAbortsRun(stage) ==
    /\ txtLog' = Append(txtLog, [file |-> txtFiles[txtIdx], outcome |-> stage])
    /\ txtErrorCount' = txtErrorCount + 1
    /\ UNCHANGED <<txtSuccessCount, textbookRows, txtIdx>>
    /\ Fatal

\* The catch of the per-file try: the failure is logged and counted and the
\* loop goes on with the next file.
TxtFileFailed(stage) ==
    /\ txtLog' = Append(txtLog, [file |-> txtFiles[txtIdx], outcome |-> stage])
    /\ txtErrorCount' = txtErrorCount + 1
    /\ UNCHANGED <<txtSuccessCount, textbookRows>>
    /\ TxtAfterFile

\* Module level: the store client's credentials, then OPENAI_API_KEY.
TxtModuleInit ==
    /\ pc = "t_init"
    /\ IF env.supabaseUrl /\ env.supabaseKey /\ env.openaiKey THEN Goto("t_read") ELSE Fatal
    /\ UNCHANGED <<env, io, setVars, genVars, extVars, txtVars, sharedVars>>

\* Step 1: readTextbookFiles lists the folder; with no .txt file it returns the
\* empty map and the caller returns before the summary; a read error is logged
\* and thrown.
TxtReadTextbookFiles ==
    /\ pc = "t_read"
    /\ \/ /\ UNCHANGED io
          /\ IF Len(ReadTextbookFiles(textbooksFolder)) = 0
             THEN /\ pc' = "exit"
                  /\ exitCode' = 0
                  /\ UNCHANGED <<script, errorLogged, summaryPrinted>>
             ELSE Goto("t_readfile")
       \/ /\ FolderReadFails
          /\ Fatal
    /\ UNCHANGED <<env, setVars, genVars, extVars, sharedVars, textbooksFolder, txtFiles, txtIdx,
                   txtLog, txtSuccessCount, txtErrorCount, textbookRows>>

\* Step 1, per .txt file: readTextbookFiles reads the file into the map
\* (txtFiles holds the files read so far). A read error is caught by the same
\* catch, logged and thrown: the map is dropped with the function.
TxtReadFile ==
    /\ pc = "t_readfile"
    /\ LET listed == ReadTextbookFiles(textbooksFolder)
           n == Len(txtFiles) + 1
       IN  \/ /\ txtFiles' = Append(txtFiles, listed[n])
              /\ UNCHANGED io
              /\ IF n < Len(listed)
                 THEN UNCHANGED <<script, pc, exitCode, errorLogged, summaryPrinted, txtIdx>>
                 ELSE /\ txtIdx' = 1
                      /\ Goto("t_summarize")
           \/ /\ txtFiles' = <<>>
              /\ UNCHANGED txtIdx
              /\ FolderReadFails
              /\ Fatal
    /\ UNCHANGED <<env, setVars, genVars, extVars, sharedVars, textbooksFolder, txtLog,
                   txtSuccessCount, txtErrorCount, textbookRows>>

\* Step 2, per file: summarizeContent
SummarizeContent ==
    /\ pc = "t_summarize"
    /\ CollabCall
    /\ \/ /\ Goto("t_embed")
          /\ UNCHANGED <<txtIdx, txtLog, txtSuccessCount, txtErrorCount, textbookRows>>
       \/ TxtFileFailed("summarize")
    /\ UNCHANGED <<env, setVars, genVars, extVars, sharedVars, textbooksFolder, txtFiles>>

\* Step 2, per file: generateEmbedding of the summary
TxtGenerateEmbedding ==
    /\ pc = "t_embed"
    /\ CollabCall
    /\ \/ /\ Goto("t_insert")
          /\ UNCHANGED <<txtIdx, txtLog, txtSuccessCount, txtErrorCount, textbookRows>>
       \/ TxtFileFailed("embed")
    /\ UNCHANGED <<env, setVars, genVars, extVars, sharedVars, textbooksFolder, txtFiles>>

\* Step 2, per file: uploadTextbook inserts the record; successCount++
UploadTextbook ==
    /\ pc = "t_insert"
    /\ \/ /\ StoreCallOk
          /\ textbookRows' = Append(textbookRows, TextbookRecord(txtFiles[txtIdx]))
          /\ txtLog' = Append(txtLog, [file |-> txtFiles[txtIdx], outcome |-> "ok"])
          /\ txtSuccessCount' = txtSuccessCount + 1
          /\ UNCHANGED txtErrorCount
          /\ TxtAfterFile
       \/ /\ StoreCallFails
          /\ TxtFileFailed("insert")
    /\ UNCHANGED <<env, setVars, genVars, extVars, sharedVars, textbooksFolder, txtFiles>>

TextbookFolderChoices == SeqsUpTo({"txt", "md"}, MaxTextbooks)

TxtInit ==
    /\ script = "txt"
    /\ pc = "t_init"
    /\ RunInit
    /\ textbooksFolder \in TextbookFolderChoices
    /\ (env # FullEnv => textbooksFolder = <<"txt">>)
    /\ txtFiles = <<>>
    /\ txtIdx = 0
    /\ txtLog = <<>>
    /\ txtSuccessCount = 0
    /\ txtErrorCount = 0
    /\ textbookRows = <<>>
    /\ questionTypes = <<>>
    /\ lastCall = NoCall
    /\ pastpapers = <<>>
    /\ SetIdle
    /\ GenIdle
    /\ ExtIdle

TxtNext ==
    \/ TxtModuleInit
    \/ TxtReadTextbookFiles
    \/ TxtReadFile
    \/ SummarizeContent
    \/ TxtGenerateEmbedding
    \/ UploadTextbook

SpecTxt == TxtInit /\ [][TxtNext]_vars

---------------------------------------------------------------------------
(* Single calls of the sampling functions, on every store and filter *)

Bands == {NoBand, EasyBand, MediumBand, HardBand}

\* One call of fetchMCQsByDifficulty: it issues one store query, counted as
\* failed when the query returns an error.
SampleMCQsByDifficulty ==
    /\ pc = "sample"
    /\ \E band \in Bands, limit \in 0..MaxLimit :
          lastCall' \in FetchMCQsByDifficultyCalls(mcqs, filters, questionTypes, band, limit)
    /\ IF lastCall'.error = "store" THEN StoreCallFails ELSE StoreCallOk
    /\ pc' = "sampled"
    /\ UNCHANGED <<script, exitCode, errorLogged, summaryPrinted, env, setVars, genVars,
                   extVars, txtVars, questionTypes, pastpapers>>

\* One call of fetchRandomQuestions: one store query; an empty result is
\* thrown after a query that succeeded.
SampleRandomQuestions ==
    /\ pc = "sample"
    /\ \E limit \in 0..MaxLimit :
          lastCall' \in FetchRandomQuestionsCalls(pastpapers, SetSubject, genConfig.topic,
                            genConfig.questionTypes, limit, questionTypes)
    /\ IF lastCall'.error = "store" THEN StoreCallFails ELSE StoreCallOk
    /\ pc' = "sampled"
    /\ UNCHANGED <<script, exitCode, errorLogged, summaryPrinted, env, setVars, genVars,
                   extVars, txtVars, questionTypes, pastpapers>>

SampleInit ==
    /\ TxtIdle
    /\ script = "sample"
    /\ pc = "sample"
    /\ RunInit
    /\ env = FullEnv
    /\ filters \in { f \in FilterChoices : f.difficultyDistribution.null /\ f.limit = MaxLimit }
    /\ mcqs \in Stores
    /\ pastpapers = mcqs
    /\ genConfig = [DefaultGenConfig EXCEPT !.topic = filters.topic,
                                            !.questionTypes = filters.questionTypeNames]
    /\ questionTypes = IF NeedsQuestionTypes(filters)
                       THEN FetchQuestionTypesRows(SetSubject) ELSE <<>>
    /\ lastCall = NoCall
    /\ allMCQs = <<>>
    /\ queries = <<>>
    /\ mcqsets = 0
    /\ mcqset_questions = <<>>
    /\ linkBatch = <<>>
    /\ sampleQuestions = <<>>
    /\ generation = NoGeneration
    /\ outputFile = NoFile
    /\ ExtIdle

SampleNext ==
    \/ SampleMCQsByDifficulty
    \/ SampleRandomQuestions

SpecSample == SampleInit /\ [][SampleNext]_vars

---------------------------------------------------------------------------
(* linkMCQsToSet on every selection of up to MaxLinked records *)

LinkSelections ==
    { [ i \in 1..Len(ds) |->
          [ id |-> i, subject |-> "s1", topic |-> "t1", question_type_id |-> "q1",
            difficulty |-> ds[i] ] ] :
        ds \in SeqsUpTo({NULL_DIFFICULTY} \cup (1..5), MaxLinked) \ { <<>> } }

\* main after step 4, in a run without filters whose flat limit took every row
LinkInit ==
    /\ TxtIdle
    /\ script = "set"
    /\ pc = "s_link"
    /\ exitCode = -1
    /\ errorLogged = FALSE
    /\ summaryPrinted = FALSE
    /\ env = FullEnv
    /\ io = [NoIO EXCEPT !.store = 2]
    /\ allMCQs \in LinkSelections
    /\ mcqs = allMCQs
    /\ filters = [ topic |-> NULL, questionTypeNames |-> NoNames, subject |-> NULL,
                   difficultyDistribution |-> NoDistribution, limit |-> MaxLinked ]
    /\ questionTypes = <<>>
    /\ queries = << NoBand >>
    /\ lastCall = [fn |-> "fetchMCQsByDifficulty", band |-> NoBand, limit |-> MaxLinked,
                   error |-> "none", result |-> allMCQs]
    /\ mcqsets = 1
    /\ mcqset_questions = <<>>
    /\ linkBatch = <<>>
    /\ pastpapers = <<>>
    /\ GenIdle
    /\ ExtIdle

SpecLink == LinkInit /\ [][LinkMCQsToSet]_vars

---------------------------------------------------------------------------
(* The two pipelines that sample the store: set creator and generator *)

SpecPipelines == (SetInit \/ GenInit) /\ [][SetNext \/ GenNext]_vars

\* A run of any of the four scripts.
ScriptsInit == SetInit \/ GenInit \/ ExtInit \/ TxtInit
ScriptsNext == SetNext \/ GenNext \/ ExtNext \/ TxtNext
SpecScripts == ScriptsInit /\ [][ScriptsNext]_vars

---------------------------------------------------------------------------
(* Properties *)

Count(seq, Test(_)) == Cardinality({ i \in 1..Len(seq) : Test(seq[i]) })
Difficulties(list) == [ i \in 1..Len(list) |-> list[i].difficulty ]

\* The ids the given names stand for in the vocabulary of the subject, read
\* from the store table.
ResolvedTypeIds(names) ==
    { question_types[i].id : i \in { j \in 1..Len(question_types) :
        /\ question_types[j].subject = SetSubject
        /\ \E n \in 1..Len(names.list) : names.list[n] = question_types[j].name } }

\* The rows of a table that pass the subject and topic equality filters, the
\* resolved type filter and the difficulty band of a call.
EligibleRows(table, subject, topic, names, band) ==
    { r \in SeqToSet(table) :
        /\ (subject # NULL => r.subject = subject)
        /\ (topic # NULL => r.topic = topic)
        /\ (ResolvedTypeIds(names) # {} => r.question_type_id \in ResolvedTypeIds(names))
        /\ (band # NoBand => r.difficulty \in band) }

LastCallEligible ==
    IF lastCall.fn = "fetchMCQsByDifficulty"
    THEN EligibleRows(mcqs, filters.subject, filters.topic, filters.questionTypeNames,
                      lastCall.band)
    ELSE EligibleRows(pastpapers, SetSubject, genConfig.topic, genConfig.questionTypes,
                      NoBand)

\* C1: a sampling call that returns (fetchMCQsByDifficulty, fetchRandomQuestions)
\* returns only rows of the table that pass every filter of the call, and at
\* most min(n, number of rows that pass) of them.
C1_SamplingRespectsFilters ==
    (lastCall.fn # "none" /\ lastCall.error = "none") =>
        /\ \A i \in 1..Len(lastCall.result) : lastCall.result[i] \in LastCallEligible
        /\ Len(lastCall.result) <= Min(lastCall.limit, Cardinality(LastCallEligible))

C1_Witness ==
    /\ lastCall.fn = "fetchMCQsByDifficulty"
    /\ lastCall.error = "none"
    /\ filters.subject = "s1"
    /\ filters.topic = "t1"
    /\ lastCall.band = EasyBand
    /\ lastCall.limit = 1
    /\ Len(lastCall.result) = 1
    /\ Len(mcqs) = Len(Corpus)

\* fetchMCQs has returned to main (steps 1 and 2 are over without a store error).
FetchMCQsReturned ==
    /\ script = "set"
    /\ env.supabaseUrl /\ env.supabaseKey
    /\ pc \in {"s_create", "s_link", "exit"}
    /\ (pc = "exit" => (exitCode = 0 \/ io.storeErr = 0))

FilteredCorpus(band) ==
    EligibleRows(mcqs, filters.subject, filters.topic, filters.questionTypeNames, band)

InBand(band, list) == Count(list, LAMBDA r : r.difficulty \in band)

\* C2: with a distribution {easy: e, medium: m, hard: h} and a filtered corpus
\* holding at least e, m and h records of the three bands, the merged selection
\* holds exactly e, m and h records of them, whatever the flat limit is.
C2_DistributionIsExact ==
    LET d == filters.difficultyDistribution
    IN  ( /\ FetchMCQsReturned
          /\ ~d.null
          /\ Cardinality(FilteredCorpus(EasyBand)) >= d.easy
          /\ Cardinality(FilteredCorpus(MediumBand)) >= d.medium
          /\ Cardinality(FilteredCorpus(HardBand)) >= d.hard ) =>
            /\ InBand(EasyBand, allMCQs) = d.easy
            /\ InBand(MediumBand, allMCQs) = d.medium
            /\ InBand(HardBand, allMCQs) = d.hard
            /\ Len(allMCQs) = d.easy + d.medium + d.hard

C2_Witness ==
    /\ FetchMCQsReturned
    /\ filters.difficultyDistribution = Distribution(2, 1, 0)
    /\ pc = "s_create"
    /\ InBand(EasyBand, allMCQs) = 2
    /\ InBand(MediumBand, allMCQs) = 1
    /\ Len(allMCQs) > filters.limit

\* linkMCQsToSet has submitted its batch.
Linked == script = "set" /\ pc = "exit" /\ Len(linkBatch) > 0

\* The selected record a membership row refers to, and its place in the selection.
PlaceOf(row) == CHOOSE i \in 1..Len(allMCQs) : allMCQs[i].id = row.mcq_id
Member(row) == allMCQs[PlaceOf(row)]

\* The records in the order of their order_index 1, 2, ...
ByOrderIndex ==
    [ k \in 1..Len(linkBatch) |->
        Member(CHOOSE row \in SeqToSet(linkBatch) : row.order_index = k) ]

\* C3: order_index puts the members in ascending difficulty, every record
\* without a difficulty after every record with one, and records of equal
\* difficulty in their order of selection; difficulties [3, 1, 5, null, 2]
\* get order_index 1..5 in the order [1, 2, 3, 5, null].
C3_OrderedByDifficulty ==
    Linked =>
        /\ \A a, b \in SeqToSet(linkBatch) :
              a.order_index < b.order_index =>
                 LET x == Member(a)
                     y == Member(b)
                 IN  /\ (x.difficulty # NULL_DIFFICULTY /\ y.difficulty # NULL_DIFFICULTY
                            => x.difficulty <= y.difficulty)
                     /\ ~(x.difficulty = NULL_DIFFICULTY /\ y.difficulty # NULL_DIFFICULTY)
                     /\ (x.difficulty = y.difficulty => PlaceOf(a) < PlaceOf(b))
        /\ (Difficulties(allMCQs) = <<3, 1, 5, NULL_DIFFICULTY, 2>>
              => Difficulties(ByOrderIndex) = <<1, 2, 3, 5, NULL_DIFFICULTY>>)

C3_Witness ==
    /\ Linked
    /\ Difficulties(allMCQs) = <<3, 1, 5, NULL_DIFFICULTY, 2>>
    /\ Len(linkBatch) = 5

\* C4: the membership rows submitted for a set of N >= 1 selected records
\* carry the order_index values 1..N, each once and ascending, one row per
\* selected record, all for the set just created.
C4_OrderIndexContiguous ==
    Linked =>
        /\ Len(linkBatch) = Len(allMCQs)
        /\ Len(allMCQs) >= 1
        /\ \A k \in 1..Len(linkBatch) : linkBatch[k].order_index = k
        /\ { linkBatch[k].order_index : k \in 1..Len(linkBatch) } = 1..Len(allMCQs)
        /\ \A i \in 1..Len(allMCQs) :
              Count(linkBatch, LAMBDA row : row.mcq_id = allMCQs[i].id) = 1
        /\ \A k \in 1..Len(linkBatch) : linkBatch[k].mcqset_id = mcqsets

C4_Witness ==
    /\ script = "set"
    /\ pc = "exit"
    /\ exitCode = 0
    /\ Len(allMCQs) = 3
    /\ mcqset_questions = linkBatch
    /\ Len(linkBatch) = 3

\* An image whose loop body is over.
ImageDone(i) ==
    /\ i <= Len(ocrLog)
    /\ (imageIdx > i \/ pc \in {"e_save", "e_upload", "exit"})

\* The terms of the subject's vocabulary, read from the store table.
VocabularyTerms ==
    { question_types[i] : i \in { j \in 1..Len(question_types) :
                                    question_types[j].subject = SetSubject } }

LabelResolves(q) == \E term \in VocabularyTerms : term.name = q.question_type_name
EmbedFailed(i, q) ==
    \E e \in 1..Len(embedLog) :
        embedLog[e] = [text |-> <<imageFiles[i], q.question_number>>, ok |-> FALSE]
EmbedAttempted(i, q) ==
    \E e \in 1..Len(embedLog) : embedLog[e].text = <<imageFiles[i], q.question_number>>

RecordsOf(i, list) == Count(list, LAMBDA r : r.metadata.source_image = imageFiles[i])
IsRecordOf(i, q, r) ==
    r.metadata.source_image = imageFiles[i] /\ r.question_number = q.question_number
HasRecord(i, q, list) == \E n \in 1..Len(list) : IsRecordOf(i, q, list[n])

\* C5: a source image whose k candidates include j failing ones (label not in
\* the vocabulary, or embed call failing) contributes exactly k - j records
\* and j counted failures; the failures counted are the failed extractions
\* plus the failed candidates, and every image of the folder is processed.
C5_CandidateFailureIsolated ==
    /\ \A i \in 1..Len(ocrLog) :
          ImageDone(i) =>
            LET k == Len(ocrLog[i].data)
                j == Count(ocrLog[i].data,
                           LAMBDA q : ~LabelResolves(q) \/ EmbedFailed(i, q))
            IN  /\ RecordsOf(i, allRecords) = k - j
                /\ Count(failures, LAMBDA f : f.source_image = imageFiles[i]) = j
    /\ errorCount = Count(ocrLog, LAMBDA o : ~o.ok) + Len(failures)
    /\ (pc \in {"e_save", "e_upload"} \/ (pc = "exit" /\ summaryPrinted))
          => Len(ocrLog) = Len(imageFiles)

C5_Witness ==
    /\ script = "ext"
    /\ Len(ocrLog) >= 1
    /\ ImageDone(1)
    /\ Len(ocrLog[1].data) = 3
    /\ Count(ocrLog[1].data, LAMBDA q : ~LabelResolves(q)) = 1
    /\ ~LabelResolves(ocrLog[1].data[1])
    /\ RecordsOf(1, allRecords) = 2
    /\ errorCount = 1

\* The merged selection of the set creator is empty; the filters of the
\* generator's sampling call match no record.
SetSelectionEmpty == FetchMCQsReturned /\ Len(allMCQs) = 0
GenSampleEmpty ==
    /\ script = "gen"
    /\ lastCall.fn = "fetchRandomQuestions"
    /\ lastCall.error # "store"
    /\ EligibleRows(pastpapers, SetSubject, genConfig.topic, genConfig.questionTypes,
                    NoBand) = {}

\* C6: when the sampling filters match no record, sampling returns without
\* raising and the pipeline ends as a clean early exit, with no error logged and
\* status 0.
C6_EmptySelectionCleanExit ==
    (SetSelectionEmpty \/ GenSampleEmpty) =>
        /\ lastCall.error = "none"
        /\ exitCode = 0
        /\ ~errorLogged

\* generateMCQs has returned to its caller.
GenerateMCQsReturned == script = "gen" /\ generation.called /\ ~generation.threw

\* C7: generateMCQs called with target count n returns exactly n candidates
\* or fails the whole call.
C7_ExactCountOrFail ==
    GenerateMCQsReturned =>
        Len(generation.result) = genConfig.numberOfMCQsToGenerate

\* C8: in mode easy, medium or hard every candidate generateMCQs returns has
\* a difficulty within the mode's range ({1,2}, {3}, {4,5}).
C8_DifficultyWithinMode ==
    (GenerateMCQsReturned /\ genConfig.difficulty \in {"easy", "medium", "hard"}) =>
        \A i \in 1..Len(generation.result) :
            generation.result[i].difficulty \in GuidanceRange(genConfig.difficulty)

\* The text that was embedded for a record.
TextOf(r) == <<r.metadata.source_image, r.question_number>>
Persisted == SeqToSet(allRecords) \cup SeqToSet(reviewFile.records) \cup SeqToSet(pastpapers)

\* C9: every record with an attempted insert carries the vector a successful
\* embed call returned for that record's text; a candidate whose embed call
\* failed is in neither the record list, the report nor the store.
C9_EmbeddingFromSuccessfulCall ==
    script = "ext" =>
        /\ \A i \in 1..Len(uploads) :
              /\ allRecords[i].embedding.vector = TextOf(allRecords[i])
              /\ \E e \in 1..Len(embedLog) :
                    embedLog[e] = [text |-> TextOf(allRecords[i]), ok |-> TRUE]
        /\ \A e \in 1..Len(embedLog) :
              ~embedLog[e].ok => \A r \in Persisted : TextOf(r) # embedLog[e].text

C9_Witness ==
    /\ script = "ext"
    /\ Len(uploads) >= 1
    /\ uploads[1]
    /\ Len(pastpapers) >= 1
    /\ \E e \in 1..Len(embedLog) : ~embedLog[e].ok

\* The candidate a record was made from.
CandidateOf(r) ==
    LET i == CHOOSE n \in 1..Len(ocrLog) : imageFiles[n] = r.metadata.source_image
    IN  ocrLog[i].data[r.question_number]

\* C10: the question_type_id of every record collected for persistence is the
\* id of a term of the fetched vocabulary named exactly as the candidate's
\* label; a candidate whose label names no term has no record in the list,
\* the report or the store, and its siblings are processed all the same.
C10_TypeIdResolvedByExactName ==
    script = "ext" =>
        /\ \A r \in Persisted :
              \E t \in 1..Len(questionTypes) :
                  /\ questionTypes[t].id = r.question_type_id
                  /\ questionTypes[t].name = CandidateOf(r).question_type_name
                  /\ questionTypes[t] \in VocabularyTerms
        /\ \A i \in 1..Len(ocrLog) : \A n \in 1..Len(ocrLog[i].data) :
              LET q == ocrLog[i].data[n]
              IN  /\ ~LabelResolves(q) => \A r \in Persisted : ~IsRecordOf(i, q, r)
                  /\ (ImageDone(i) /\ LabelResolves(q)) => EmbedAttempted(i, q)

C10_Witness ==
    /\ script = "ext"
    /\ Len(ocrLog) >= 1
    /\ Len(ocrLog[1].data) >= 2
    /\ ~LabelResolves(ocrLog[1].data[1])
    /\ LabelResolves(ocrLog[1].data[2])
    /\ \E n \in 1..Len(pastpapers) :
          /\ IsRecordOf(1, ocrLog[1].data[2], pastpapers[n])
          /\ pastpapers[n].question_type_id = "q1"

\* The membership rows the store holds for the set of this run.
RowsOfRunSet == SelectSeq(mcqset_questions, LAMBDA row : row.mcqset_id = mcqsets)

\* C11: in every terminal state of the set creator the store holds either no
\* membership row or all N rows of the one batch submitted; the run exits 0
\* with its summary exactly when the set row and the N rows are stored, and
\* otherwise (set insert or membership insert failed, or an earlier step did)
\* it ends logged, with exit status 1 and no success summary.
C11_LinkageAllOrNothing ==
    (script = "set" /\ pc = "exit") =>
        /\ Len(RowsOfRunSet) \in {0, Len(allMCQs)}
        /\ Len(RowsOfRunSet) > 0 => RowsOfRunSet = linkBatch
        /\ IF mcqsets = 1 /\ Len(allMCQs) > 0 /\ Len(RowsOfRunSet) = Len(allMCQs)
           THEN exitCode = 0 /\ summaryPrinted /\ ~errorLogged
           ELSE exitCode = 1 /\ errorLogged /\ ~summaryPrinted

C11_Witness ==
    /\ script = "set"
    /\ pc = "exit"
    /\ mcqsets = 1
    /\ Len(linkBatch) >= 2
    /\ mcqset_questions = <<>>
    /\ exitCode = 1
    /\ errorLogged

EmbedSucceeded(i, q) ==
    \E e \in 1..Len(embedLog) :
        embedLog[e] = [text |-> <<imageFiles[i], q.question_number>>, ok |-> TRUE]

\* The candidates processed successfully, from candidate n of image i on, in
\* processing order, each named by its source image and question number.
RECURSIVE SuccessfulFrom(_, _)
SuccessfulFrom(i, n) ==
    IF i > Len(ocrLog) THEN <<>>
    ELSE IF n > Len(ocrLog[i].data) THEN SuccessfulFrom(i + 1, 1)
    ELSE LET q == ocrLog[i].data[n]
         IN  (IF LabelResolves(q) /\ EmbedSucceeded(i, q)
              THEN << <<imageFiles[i], q.question_number>> >> ELSE <<>>)
             \o SuccessfulFrom(i, n + 1)

ReportHoldsAllSuccessful ==
    /\ reviewFile.written
    /\ Len(ocrLog) = Len(imageFiles)
    /\ reviewFile.records = allRecords
    /\ [ n \in 1..Len(reviewFile.records) |-> TextOf(reviewFile.records[n]) ]
          = SuccessfulFrom(1, 1)

\* C12: once an insert has been attempted the review report is written and
\* holds exactly the successfully processed candidates of the whole run in
\* processing order; a written report stays as it is whatever the inserts
\* do, and a run that ends with its summary and a record has written it.
C12_ReportBeforeInsert ==
    script = "ext" =>
        /\ Len(uploads) > 0 => ReportHoldsAllSuccessful
        /\ reviewFile.written => ReportHoldsAllSuccessful
        /\ (pc = "exit" /\ exitCode = 0 /\ Len(allRecords) > 0) => reviewFile.written
        /\ (pc = "e_upload" /\ uploads = <<>>) => reviewFile.written

C12_Witness ==
    /\ script = "ext"
    /\ pc = "exit"
    /\ Len(uploads) = 2
    /\ ~uploads[1]
    /\ reviewFile.written
    /\ Len(reviewFile.records) = 2
    /\ Len(failures) = 1

\* The run was aborted by a configuration error: a credential the script
\* needs is missing, or the generator reached its topic check without a topic.
CredentialsMissing ==
    \/ ~(env.supabaseUrl /\ env.supabaseKey)
    \/ (script \in {"gen", "ext", "txt"} /\ ~env.openaiKey)
TopicMissing ==
    /\ script = "gen"
    /\ genConfig.topic = NULL
    /\ ~CredentialsMissing
    /\ io.storeErr = 0
    /\ lastCall.fn = "fetchRandomQuestions"
    /\ lastCall.error = "none"
ConfigAbort == pc = "exit" /\ exitCode = 1 /\ (CredentialsMissing \/ TopicMissing)

\* C13: when a run is aborted by a configuration error (missing credential,
\* or no topic for content-grounded generation), no store query, no
\* collaborator call and no file write has been issued.
C13_ConfigErrorAbortsBeforeWork ==
    ConfigAbort => (io.store = 0 /\ io.collab = 0 /\ io.file = 0)

\* The outcome logged for a file of the textbook folder.
OutcomesOf(file) == { n \in 1..Len(txtLog) : txtLog[n].file = file }

\* C19: in a textbook upload run a failed summarisation, embedding or insert
\* of one file is counted and the loop goes on: the files finished are the
\* first files read, each attempted once and in order; at the summary every
\* file read was attempted exactly once, successful + failed uploads = total
\* files, and the rows stored are those of the successful files.
C19_TextbookFailureIsolated ==
    script = "txt" =>
        /\ \A n \in 1..Len(txtLog) : txtLog[n].file = txtFiles[n]
        /\ txtErrorCount = Count(txtLog, LAMBDA o : o.outcome # "ok")
        /\ txtSuccessCount = Count(txtLog, LAMBDA o : o.outcome = "ok")
        /\ Len(textbookRows) = txtSuccessCount
        /\ (pc = "exit" /\ Len(txtFiles) > 0) =>
              /\ exitCode = 0 /\ summaryPrinted
              /\ \A i \in 1..Len(txtFiles) : Cardinality(OutcomesOf(txtFiles[i])) = 1
              /\ txtSuccessCount + txtErrorCount = Len(txtFiles)

C19_Witness ==
    /\ script = "txt"
    /\ pc = "exit"
    /\ Len(txtFiles) = 3
    /\ txtLog[1].outcome = "summarize"
    /\ txtLog[2].outcome = "insert"
    /\ txtLog[3].outcome = "ok"
    /\ txtSuccessCount = 1
    /\ txtErrorCount = 2

FailedInserts == Count(uploads, LAMBDA ok : ~ok)
FailedTextbookInserts == Count(txtLog, LAMBDA o : o.outcome = "insert")

\* C14 as stated: whenever a store call has failed, the run has been aborted
\* at that call and the process exits non-zero.
C14_AnyStoreFailureAborts ==
    io.storeErr > 0 => (pc = "exit" /\ exitCode = 1)

\* C14 amended: a failed store query (vocabulary, sampling, reference content)
\* and a failed set or membership insert abort the run at that call, logged
\* and with exit status 1; a failed per-record insert of the past paper
\* uploader or per-file insert of the textbook uploader is counted, the
\* remaining inserts are still attempted and the run ends with exit status 0.
C14_StoreFailureFatalExceptPerItemInserts ==
    /\ (script \in {"set", "gen"} /\ io.storeErr > 0) =>
          (pc = "exit" /\ exitCode = 1 /\ errorLogged /\ io.storeErr = 1)
    /\ (script = "ext" /\ io.storeErr > FailedInserts) =>
          /\ pc = "exit" /\ exitCode = 1 /\ errorLogged
          /\ io.storeErr = 1 /\ io.collab = 0 /\ uploads = <<>>
    /\ (script = "ext" /\ pc = "exit" /\ reviewFile.written) =>
          /\ Len(uploads) = Len(allRecords)
          /\ io.storeErr = FailedInserts
          /\ exitCode = 0 /\ summaryPrinted
    /\ script = "txt" =>
          /\ io.storeErr = FailedTextbookInserts
          /\ (pc = "exit" /\ FailedTextbookInserts > 0) =>
                (exitCode = 0 /\ summaryPrinted /\ Len(txtLog) = Len(txtFiles))

C14_Witness ==
    /\ script = "ext"
    /\ pc = "exit"
    /\ io.store = 2
    /\ io.storeErr = 1
    /\ Len(questionTypes) > 0
    /\ topics = <<>>
    /\ exitCode = 1

\* The run returned early because its folder holds no eligible file: nothing
\* was processed and the summary block was skipped.
NoEligibleFile ==
    \/ /\ script = "ext"
       /\ ReadImageFiles(folder) = <<>>
       /\ ocrLog = <<>> /\ uploads = <<>> /\ ~reviewFile.written
    \/ /\ script = "txt"
       /\ ReadTextbookFiles(textbooksFolder) = <<>>
       /\ txtLog = <<>> /\ textbookRows = <<>>

\* C15 as stated: a run exits 0 only after its summary block was printed and
\* non-zero only after the fatal error was logged.
C15_ExitOnlyAfterSummaryOrError ==
    pc = "exit" =>
        \/ (exitCode = 0 /\ summaryPrinted)
        \/ (exitCode # 0 /\ exitCode # -1 /\ errorLogged)

\* C15 amended: a run exits 0 after its summary block was printed or, with no
\* summary, when its folder holds no eligible file; it exits non-zero only
\* after the fatal error was logged; before the exit nothing of this is set.
C15_ExitConvention ==
    /\ pc = "exit" =>
          \/ (exitCode = 0 /\ ~errorLogged /\ (summaryPrinted \/ NoEligibleFile))
          \/ (exitCode = 1 /\ errorLogged /\ ~summaryPrinted)
    /\ pc # "exit" => (exitCode = -1 /\ ~summaryPrinted /\ ~errorLogged)

C15_Witness ==
    /\ script = "ext"
    /\ pc = "exit"
    /\ exitCode = 0
    /\ ~summaryPrinted
    /\ Len(folder) = 2
    /\ io.store = 2

\* The question-type names the last sampling call was given.
LastCallNames ==
    IF lastCall.fn = "fetchMCQsByDifficulty" THEN filters.questionTypeNames
    ELSE genConfig.questionTypes

\* C16: when a non-empty list of question-type names is given, every record
\* a sampling call returns has a question_type_id among the ids the names
\* resolve to in the vocabulary, also when no name resolves.
C16_TypeFilterAlwaysRestricts ==
    ( /\ lastCall.fn # "none"
      /\ lastCall.error = "none"
      /\ ~LastCallNames.null
      /\ Len(LastCallNames.list) > 0 ) =>
        \A i \in 1..Len(lastCall.result) :
            lastCall.result[i].question_type_id \in ResolvedTypeIds(LastCallNames)

\* The queries a distribution asks for: one per band with a non-zero count.
ExpectedQueries(d) ==
    (IF d.easy > 0 THEN <<EasyBand>> ELSE <<>>)
    \o (IF d.medium > 0 THEN <<MediumBand>> ELSE <<>>)
    \o (IF d.hard > 0 THEN <<HardBand>> ELSE <<>>)

IsPrefix(s, t) == Len(s) <= Len(t) /\ SubSeq(t, 1, Len(s)) = s

\* C17: with a distribution, fetchMCQs issues one query per band with a
\* non-zero count, in the order easy, medium, hard, and none for a zero
\* count; each band contributes min(count, matching records of that band),
\* so a band matching nothing contributes nothing, the other bands are still
\* queried, and no band holds more selected records than its count.
C17_BandsSampledIndependently ==
    LET d == filters.difficultyDistribution
    IN  (script = "set" /\ ~d.null) =>
          /\ IsPrefix(queries, ExpectedQueries(d))
          /\ InBand(EasyBand, allMCQs) <= d.easy
          /\ InBand(MediumBand, allMCQs) <= d.medium
          /\ InBand(HardBand, allMCQs) <= d.hard
          /\ Len(allMCQs) = InBand(EasyBand, allMCQs) + InBand(MediumBand, allMCQs)
                              + InBand(HardBand, allMCQs)
          /\ FetchMCQsReturned =>
                /\ queries = ExpectedQueries(d)
                /\ InBand(EasyBand, allMCQs)
                      = Min(d.easy, Cardinality(FilteredCorpus(EasyBand)))
                /\ InBand(MediumBand, allMCQs)
                      = Min(d.medium, Cardinality(FilteredCorpus(MediumBand)))
                /\ InBand(HardBand, allMCQs)
                      = Min(d.hard, Cardinality(FilteredCorpus(HardBand)))

C17_Witness ==
    /\ FetchMCQsReturned
    /\ ~filters.difficultyDistribution.null
    /\ filters.difficultyDistribution.easy = 2
    /\ filters.difficultyDistribution.hard = 0
    /\ FilteredCorpus(EasyBand) = {}
    /\ queries = <<EasyBand, MediumBand>>
    /\ InBand(MediumBand, allMCQs) = 1
    /\ Len(allMCQs) = 1
    /\ pc = "s_create"

\* The tables of the store that a run can write to.
StoreTables == <<mcqs, pastpapers, mcqsets, mcqset_questions, textbookRows>>

\* C18: no step of a generation run changes a table of the store; the run
\* makes no embed call, its store calls are the three reads (question
\* types, exemplar questions, reference content), its one collaborator call
\* is the generation, and its only output is its one file write.
C18_GenerationLeavesStoreUnchanged ==
    [][ script = "gen" =>
          /\ UNCHANGED StoreTables
          /\ embedLog' = <<>>
          /\ reviewFile' = NoReview
          /\ io'.store - io.store \in {0, 1}
          /\ io'.store <= 3
          /\ io'.collab = (IF generation'.called THEN 1 ELSE 0)
          /\ io'.file = (IF pc' = "exit" /\ pc = "g_save" THEN 1 ELSE 0)
          /\ outputFile'.written => (outputFile'.mcqs = generation'.result /\ io'.file = 1)
      ]_vars

C18_Witness ==
    /\ script = "gen"
    /\ pc = "exit"
    /\ exitCode = 0
    /\ outputFile.written
    /\ Len(outputFile.mcqs) >= 1
    /\ io.store = 3
    /\ io.collab = 1
    /\ Len(pastpapers) = 3

\* The topics of the vocabulary fetched for the subject.
FetchedTopics == { topics[i].topic : i \in 1..Len(topics) }

\* C20: every extracted record in the review report or submitted to a store
\* insert has a topic of the fetched topic vocabulary.
C20_TopicFromClosedSet ==
    script = "ext" =>
        /\ \A n \in 1..Len(reviewFile.records) : reviewFile.records[n].topic \in FetchedTopics
        /\ \A n \in 1..Len(uploads) : allRecords[n].topic \in FetchedTopics
        /\ \A n \in 1..Len(pastpapers) : pastpapers[n].topic \in FetchedTopics

\* The source folder of the running uploader holds no file the script accepts.
FolderHoldsNoEligibleFile ==
    \/ script = "ext" /\ ReadImageFiles(folder) = <<>>
    \/ script = "txt" /\ ReadTextbookFiles(textbooksFolder) = <<>>

\* The run ended and nothing before or during the folder read failed, so the
\* folder read returned its (empty) list.
FolderReadReturned ==
    /\ pc = "exit"
    /\ ~CredentialsMissing
    /\ io.storeErr = 0
    /\ io.readErr = 0

\* C21: when the source folder holds no eligible file (no .txt file for the
\* textbook upload, no image for the extraction), the run makes no summarisation,
\* extraction or embedding call, writes no report and inserts nothing into the
\* store (the only store calls are the two vocabulary reads of the extraction);
\* once the folder read has returned, the run has exited with status 0, without
\* an error and without a summary.
C21_NoEligibleFileCleanExit ==
    FolderHoldsNoEligibleFile =>
        /\ io.collab = 0
        /\ ocrLog = <<>> /\ embedLog = <<>> /\ txtLog = <<>>
        /\ io.file = 0 /\ ~reviewFile.written
        /\ uploads = <<>> /\ textbookRows = <<>>
        /\ io.store <= (IF script = "ext" THEN 2 ELSE 0)
        /\ FolderReadReturned =>
              /\ exitCode = 0
              /\ ~errorLogged
              /\ ~summaryPrinted

C21_Witness ==
    /\ script = "ext"
    /\ folder = <<"txt">>
    /\ FolderHoldsNoEligibleFile
    /\ FolderReadReturned
    /\ exitCode = 0
    /\ io.collab = 0
    /\ ~reviewFile.written

\* The vocabulary query of the set creator failed: a store call failed before
\* any sampling query was issued.
SetVocabularyFailed ==
    /\ script = "set"
    /\ NeedsQuestionTypes(filters)
    /\ queries = <<>>
    /\ io.storeErr > 0

\* A sampling query of the set creator failed.
SetSamplingFailed ==
    /\ script = "set"
    /\ lastCall.fn = "fetchMCQsByDifficulty"
    /\ lastCall.error # "none"

\* The step that inserts the set row: it happens once, after sampling has
\* returned a non-empty selection with no failed call, and before any membership
\* row is submitted or stored.
SetRowInsertedInOrder ==
    mcqsets' # mcqsets =>
        /\ mcqsets = 0 /\ mcqsets' = 1
        /\ pc = "s_create" /\ pc' = "s_link"
        /\ Len(allMCQs) > 0 /\ allMCQs' = allMCQs
        /\ io.storeErr = 0
        /\ ~SetVocabularyFailed /\ ~SetSamplingFailed
        /\ linkBatch = <<>> /\ mcqset_questions = <<>>
        /\ linkBatch' = <<>> /\ mcqset_questions' = <<>>

\* In every state of a set-creation run: at most one set row; membership rows
\* only with a set row; no set row when the selection is empty or a vocabulary or
\* sampling query failed.
SetRowOnlyWithSelection ==
    script = "set" =>
        /\ mcqsets \in {0, 1}
        /\ (Len(linkBatch) > 0 \/ Len(mcqset_questions) > 0) => mcqsets = 1
        /\ mcqsets = 1 => Len(allMCQs) > 0
        /\ (Len(allMCQs) = 0 \/ SetVocabularyFailed \/ SetSamplingFailed) => mcqsets = 0

\* C22: in a set-creation run the set row is inserted at most once, only after
\* sampling returned a non-empty selection, and before any membership row is
\* inserted; a run whose selection is empty or whose vocabulary or sampling query
\* failed inserts no set row.
C22_SetRowOnceAfterSelection ==
    /\ []SetRowOnlyWithSelection
    /\ [][SetRowInsertedInOrder]_vars

\* A finished run that inserted the set row and then its membership rows, after
\* sampling from more than one band.
C22_Witness ==
    /\ script = "set"
    /\ pc = "exit"
    /\ exitCode = 0
    /\ mcqsets = 1
    /\ Len(queries) >= 2
    /\ Len(mcqset_questions) = Len(allMCQs)
    /\ Len(allMCQs) > 0

\* createMCQSet succeeded and the batch insert of linkMCQsToSet then failed.
LinkageFailed ==
    /\ script = "set"
    /\ pc = "exit"
    /\ Len(linkBatch) > 0
    /\ exitCode # 0

\* The store calls a set-creation run issues up to and including the membership
\* insert: the vocabulary read when needed, the sampling queries, the set insert
\* and the batch insert.
StoreCallsThroughLinkage ==
    (IF NeedsQuestionTypes(filters) THEN 1 ELSE 0) + Len(queries) + 2

\* C23: when createMCQSet succeeded and the batch membership insert then failed,
\* the run has exited with status 1 and an error logged, the new set row is still
\* in the store with no membership row, and the failed insert was the last store
\* call of the run (no delete, no compensating write).
C23_SetRowKeptWhenLinkageFails ==
    LinkageFailed =>
        /\ exitCode = 1 /\ errorLogged /\ ~summaryPrinted
        /\ mcqsets = 1
        /\ mcqset_questions = <<>>
        /\ io.storeErr = 1
        /\ io.store = StoreCallsThroughLinkage

C23_Witness ==
    /\ LinkageFailed
    /\ mcqsets = 1
    /\ mcqset_questions = <<>>
    /\ io.storeErr = 1
    /\ io.store = StoreCallsThroughLinkage
    /\ NeedsQuestionTypes(filters)

\* The loop over the images is over.
ExtractionLoopEnded ==
    /\ script = "ext"
    /\ Len(imageFiles) > 0
    /\ Len(ocrLog) = Len(imageFiles)
    /\ pc \in {"e_save", "e_upload", "exit"}

\* The candidates, over all images, whose label did not resolve or whose embed
\* call failed.
FailedCandidates ==
    LET RECURSIVE Sum(_)
        Sum(i) == IF i = 0 THEN 0
                  ELSE Count(ocrLog[i].data,
                             LAMBDA q : ~LabelResolves(q) \/ EmbedFailed(i, q)) + Sum(i - 1)
    IN  Sum(Len(ocrLog))

\* C24: at the end of the extraction loop the number of collected records is the
\* number of candidates returned by the successful extraction calls minus the
\* candidates that failed; successCount is the number of images whose extraction
\* call succeeded, whatever became of their candidates; errorCount is the number
\* of failed extraction calls plus the number of failed candidates.
C24_LoopCounters ==
    ExtractionLoopEnded =>
        /\ Len(allRecords) = CandidatesSoFar - FailedCandidates
        /\ successCount = Count(ocrLog, LAMBDA o : o.ok)
        /\ errorCount = Count(ocrLog, LAMBDA o : ~o.ok) + FailedCandidates

\* Two images: one extraction call failed, the other returned two candidates
\* which both failed.
C24_Witness ==
    /\ ExtractionLoopEnded
    /\ Len(ocrLog) = 2
    /\ Count(ocrLog, LAMBDA o : o.ok) = 1
    /\ CandidatesSoFar = 2
    /\ FailedCandidates = 2
    /\ allRecords = <<>>
    /\ successCount = 1
    /\ errorCount = 3

\* No two records of the list carry the same id; no two membership rows name the
\* same question.
DistinctIds(list) ==
    \A i, j \in 1..Len(list) : i # j => list[i].id # list[j].id
DistinctQuestions(rows) ==
    \A i, j \in 1..Len(rows) : i # j => rows[i].mcq_id # rows[j].mcq_id

\* C25: given a store whose rows have distinct ids, the merged selection of
\* fetchMCQs never holds the same record twice, with a flat limit and with a
\* difficulty distribution, so neither the batch submitted for a set nor the
\* membership rows stored repeat a question id.
C25_SelectionHasNoDuplicates ==
    (script = "set" /\ DistinctIds(mcqs)) =>
        /\ DistinctIds(allMCQs)
        /\ DistinctQuestions(linkBatch)
        /\ DistinctQuestions(mcqset_questions)
        /\ Len(linkBatch) > 0 =>
              { linkBatch[i].mcq_id : i \in 1..Len(linkBatch) } =
              { allMCQs[i].id : i \in 1..Len(allMCQs) }

\* A set linked from a selection merged from two bands, one of which gave two
\* records.
C25_Witness ==
    /\ script = "set"
    /\ ~filters.difficultyDistribution.null
    /\ Len(queries) >= 2
    /\ Len(allMCQs) >= 3
    /\ Len(mcqset_questions) = Len(allMCQs)
    /\ DistinctQuestions(mcqset_questions)

============================================================================
